---------------------------- MODULE Spec2Model ----------------------------
(***************************************************************************)
(* A model of astrobase/hatsurveys/oldhatlc.py: the module-level import    *)
(* of the FITS library, and read_hatlc(hatlc), which opens a light curve   *)
(* file, picks a decoder from the file's basename and returns a dict.      *)
(*                                                                         *)
(* Python strings are modelled as sequences of one-character strings, so   *)
(* that split, strip, startswith and `in` are computed as Python computes  *)
(* them.  The alphabet is the code points 0..255: the white space and the  *)
(* decimal digits Unicode has above them cannot be written here.           *)
(*                                                                         *)
(* A finite float is the pair <<m, d>> standing for m / 10^d, normalised   *)
(* so that m has no trailing decimal zero: the decimal Python prints the   *)
(* float as.  The other floats are "nan", "inf" and "-inf"; the sign of    *)
(* zero is not kept.  float() is defined here on the literals it does not  *)
(* round to another decimal: those of at most 15 significant digits, the   *)
(* last of them at 10^-323 or above, and those it takes to zero or to inf. *)
(* On the other literals FloatOf has no value.                             *)
(*                                                                         *)
(* The dict read_hatlc returns is modelled as a record: the field data     *)
(* holds the entries whose keys are column names, the other fields are the *)
(* metadata entries, which are written after the columns.                  *)
(***************************************************************************)
EXTENDS Integers, Sequences, FiniteSets, TLC

(***************************************************************************)
(* Bounds of the enumerated inputs.                                        *)
(***************************************************************************)
MaxSegs == 2      \* suffix segments appended to the basename stem
MaxRows == 2      \* data rows of a text light curve
MaxFields == 2    \* fields of one data row
MaxCols == 2      \* lines of the column legend
MaxFilt == 2      \* lines between "Filters used:" and "Columns:"

(***************************************************************************)
(* Python str primitives.                                                  *)
(***************************************************************************)
\* the characters str.strip() and str.split() take for white space:
\* TAB LF VT FF CR SPACE, the separators FS GS RS US, NEL and NBSP
AsciiSpace == {" ", "\t", "\n", "\r", "\f", ""}

Separators == {"", "", "", ""}

Latin1Space == {"", " "}

Whitespace == AsciiSpace \cup Separators \cup Latin1Space

Digits == {"0", "1", "2", "3", "4", "5", "6", "7", "8", "9"}

DigitVal(c) ==
    CASE c = "0" -> 0 [] c = "1" -> 1 [] c = "2" -> 2 [] c = "3" -> 3
      [] c = "4" -> 4 [] c = "5" -> 5 [] c = "6" -> 6 [] c = "7" -> 7
      [] c = "8" -> 8 [] c = "9" -> 9

\* s[i:] of Python, for a 1-based i
From(s, i) == SubSeq(s, i, Len(s))

\* s.startswith(p)
StartsWith(s, p) == Len(p) <= Len(s) /\ SubSeq(s, 1, Len(p)) = p

\* the least and the greatest of a non-empty set of positions
Least(S) == CHOOSE k \in S : \A j \in S : k <= j

Greatest(S) == CHOOSE k \in S : \A j \in S : j <= k

\* s.find(sub) + 1 searching from the 1-based position i; 0 when absent
FindFrom(s, sub, i) ==
    LET at == {k \in i..(Len(s) - Len(sub) + 1) :
                   SubSeq(s, k, k + Len(sub) - 1) = sub}
    IN  IF at = {} THEN 0 ELSE Least(at)

\* sub in s
Contains(s, sub) == FindFrom(s, sub, 1) > 0

\* s.rfind(c) + 1 for a single character c; 0 when absent
RFind(s, c, i) ==
    LET at == {k \in 1..i : s[k] = c}
    IN  IF at = {} THEN 0 ELSE Greatest(at)

\* a basename that keeps the directory part
BasenameWholePath(p) == p

\* os.path.basename(p): everything after the last "/"
Basename(p) == From(p, RFind(p, "/", Len(p)) + 1)

\* s.split(sep) for a non-empty separator: left to right, never overlapping
RECURSIVE Split(_, _)
Split(s, sep) ==
    LET k == FindFrom(s, sep, 1)
    IN  IF k = 0 THEN <<s>>
        ELSE <<SubSeq(s, 1, k - 1)>> \o Split(From(s, k + Len(sep)), sep)

\* s.lstrip(chars), s.rstrip(chars), s.strip(chars): chars is a SET of
\* characters, each end is trimmed while its character is in the set
Kept(s, chars) == {i \in DOMAIN s : s[i] \notin chars}

LStrip(s, chars) ==
    IF Kept(s, chars) = {} THEN <<>> ELSE From(s, Least(Kept(s, chars)))

RStrip(s, chars) ==
    IF Kept(s, chars) = {} THEN <<>>
    ELSE SubSeq(s, 1, Greatest(Kept(s, chars)))

StripChars(s, chars) == RStrip(LStrip(s, chars), chars)

\* s.strip()
Strip(s) == StripChars(s, Whitespace)

\* s.split(): fields are the maximal runs of non-whitespace characters
RECURSIVE SplitWS(_)
SplitWS(s) ==
    LET t == LStrip(s, Whitespace)
        ws == {i \in DOMAIN t : t[i] \in Whitespace}
        e == IF ws = {} THEN Len(t) ELSE Least(ws) - 1
    IN  IF t = <<>> THEN <<>>
        ELSE <<SubSeq(t, 1, e)>> \o SplitWS(From(t, e + 1))

\* the characters of chars as a set: the argument of strip(chars)
CharSet(chars) == {chars[i] : i \in DOMAIN chars}

(***************************************************************************)
(* int(s) and float(s).  Both trim white space at the two ends, though not *)
(* the separators FS GS RS US, then take an optional sign and digits; one  *)
(* underscore may stand between two digits.  float also takes a fraction,  *)
(* an exponent, and the words nan, inf and infinity in any case.  Anything *)
(* else raises ValueError, and so does int() on more than 4300 digits      *)
(* (sys.get_int_max_str_digits() of Python 3.11).                          *)
(***************************************************************************)
\* the white space int() and float() trim
NumSpace == AsciiSpace \cup Latin1Space

NumText(s) == StripChars(s, NumSpace)

Unsigned(s) == IF s # <<>> /\ s[1] \in {"+", "-"} THEN Tail(s) ELSE s

AllDigits(s) == \A i \in DOMAIN s : s[i] \in Digits

\* every underscore stands between two digits
UnderscoresOk(s) ==
    \A i \in DOMAIN s :
        s[i] = "_" => /\ 1 < i
                      /\ i < Len(s)
                      /\ s[i - 1] \in Digits
                      /\ s[i + 1] \in Digits

\* s without its underscores
Plain(s) == SelectSeq(s, LAMBDA c : c # "_")

RECURSIVE DigitsVal(_)
DigitsVal(s) ==
    IF s = <<>> THEN 0
    ELSE 10 * DigitsVal(SubSeq(s, 1, Len(s) - 1)) + DigitVal(s[Len(s)])

\* whether int(s) returns rather than raising ValueError
IsIntLit(s) ==
    LET u == Unsigned(NumText(s))
    IN  /\ u # <<>>
        /\ UnderscoresOk(u)
        /\ AllDigits(Plain(u))
        /\ Len(Plain(u)) <= 4300

\* the value of the signed digits x
SignedInt(x) ==
    IF x[1] = "-" THEN 0 - DigitsVal(Unsigned(x)) ELSE DigitsVal(Unsigned(x))

\* int(s)
IntOf(s) == SignedInt(Plain(NumText(s)))

\* the lower case of the letters float() reads
LowerChar(c) ==
    CASE c = "A" -> "a" [] c = "E" -> "e" [] c = "F" -> "f" [] c = "I" -> "i"
      [] c = "N" -> "n" [] c = "T" -> "t" [] c = "Y" -> "y" [] OTHER -> c

Lower(s) == [i \in DOMAIN s |-> LowerChar(s[i])]

IsNanWord(u) == Lower(u) = <<"n", "a", "n">>

IsInfWord(u) == Lower(u) \in {<<"i", "n", "f">>, <<"i", "n", "f", "i", "n", "i", "t", "y">>}

\* the position of the exponent letter in u, 0 when there is none
ExpAt(u, i) ==
    LET at == {k \in i..Len(u) : u[k] \in {"e", "E"}}
    IN  IF at = {} THEN 0 ELSE Least(at)

HasExponent(u) == ExpAt(u, 1) # 0

\* the part of u after the exponent letter, and the part before it
Exponent(u) == From(u, ExpAt(u, 1) + 1)

Mantissa(u) == IF HasExponent(u) THEN SubSeq(u, 1, ExpAt(u, 1) - 1) ELSE u

\* digits, or digits "." digits with at least one digit
IsDecimal(m) ==
    LET p == Split(m, <<".">>)
    IN  /\ Len(p) \in {1, 2}
        /\ \A i \in DOMAIN p : AllDigits(p[i])
        /\ \E i \in DOMAIN p : p[i] # <<>>

\* an optional sign and at least one digit
IsSignedDigits(x) == Unsigned(x) # <<>> /\ AllDigits(Unsigned(x))

\* the text float() reads, its sign and underscores taken off
FloatBody(s) == Plain(Unsigned(NumText(s)))

IsFloatBody(u) ==
    \/ IsNanWord(u)
    \/ IsInfWord(u)
    \/ /\ IsDecimal(Mantissa(u))
       /\ HasExponent(u) => IsSignedDigits(Exponent(u))

\* whether float(s) returns rather than raising ValueError
IsFloatLit(s) == UnderscoresOk(NumText(s)) /\ IsFloatBody(FloatBody(s))

RECURSIVE Pow10(_)
Pow10(n) == IF n = 0 THEN 1 ELSE 10 * Pow10(n - 1)

Inf(neg) == IF neg THEN "-inf" ELSE "inf"

\* digs / 10^scale for digits digs without trailing zeros, 0 < scale
Fraction(neg, digs, scale) ==
    <<IF neg THEN 0 - DigitsVal(digs) ELSE DigitsVal(digs), scale>>

\* digs * 10^(-scale), scale <= 0
Whole(neg, digs, scale) ==
    <<IF neg THEN 0 - DigitsVal(digs) * Pow10(0 - scale)
      ELSE DigitsVal(digs) * Pow10(0 - scale), 0>>

\* digs without its last k digits
DropLast(digs, k) == SubSeq(digs, 1, Len(digs) - k)

\* how many trailing zeros of digs the scale lets go
Droppable(digs, scale) ==
    IF scale < Len(digs) - Len(RStrip(digs, {"0"}))
    THEN scale ELSE Len(digs) - Len(RStrip(digs, {"0"}))

\* the digits of 2^1024 - 2^970, half way from the largest float to 2^1024:
\* float() gives inf from there on
OverflowBound == <<
    "1", "7", "9", "7", "6", "9", "3", "1", "3", "4", "8", "6", "2",
    "3", "1", "5", "8", "0", "7", "9", "3", "7", "2", "8", "9", "7",
    "1", "4", "0", "5", "3", "0", "3", "4", "1", "5", "0", "7", "9",
    "9", "3", "4", "1", "3", "2", "7", "1", "0", "0", "3", "7", "8",
    "2", "6", "9", "3", "6", "1", "7", "3", "7", "7", "8", "9", "8",
    "0", "4", "4", "4", "9", "6", "8", "2", "9", "2", "7", "6", "4",
    "7", "5", "0", "9", "4", "6", "6", "4", "9", "0", "1", "7", "9",
    "7", "7", "5", "8", "7", "2", "0", "7", "0", "9", "6", "3", "3",
    "0", "2", "8", "6", "4", "1", "6", "6", "9", "2", "8", "8", "7",
    "9", "1", "0", "9", "4", "6", "5", "5", "5", "5", "4", "7", "8",
    "5", "1", "9", "4", "0", "4", "0", "2", "6", "3", "0", "6", "5",
    "7", "4", "8", "8", "6", "7", "1", "5", "0", "5", "8", "2", "0",
    "6", "8", "1", "9", "0", "8", "9", "0", "2", "0", "0", "0", "7",
    "0", "8", "3", "8", "3", "6", "7", "6", "2", "7", "3", "8", "5",
    "4", "8", "4", "5", "8", "1", "7", "7", "1", "1", "5", "3", "1",
    "7", "6", "4", "4", "7", "5", "7", "3", "0", "2", "7", "0", "0",
    "6", "9", "8", "5", "5", "5", "7", "1", "3", "6", "6", "9", "5",
    "9", "6", "2", "2", "8", "4", "2", "9", "1", "4", "8", "1", "9",
    "8", "6", "0", "8", "3", "4", "9", "3", "6", "4", "7", "5", "2",
    "9", "2", "7", "1", "9", "0", "7", "4", "1", "6", "8", "4", "4",
    "4", "3", "6", "5", "5", "1", "0", "7", "0", "4", "3", "4", "2",
    "7", "1", "1", "5", "5", "9", "6", "9", "9", "5", "0", "8", "0",
    "9", "3", "0", "4", "2", "8", "8", "0", "1", "7", "7", "9", "0",
    "4", "1", "7", "4", "4", "9", "7", "7", "9", "2">>

\* the digits of 5^1075: 2^-1075 = 5^1075 / 10^1075 is half the smallest
\* float, and float() gives 0 up to there
UnderflowBound == <<
    "2", "4", "7", "0", "3", "2", "8", "2", "2", "9", "2", "0", "6",
    "2", "3", "2", "7", "2", "0", "8", "8", "2", "8", "4", "3", "9",
    "6", "4", "3", "4", "1", "1", "0", "6", "8", "6", "1", "8", "2",
    "5", "2", "9", "9", "0", "1", "3", "0", "7", "1", "6", "2", "3",
    "8", "2", "2", "1", "2", "7", "9", "2", "8", "4", "1", "2", "5",
    "0", "3", "3", "7", "7", "5", "3", "6", "3", "5", "1", "0", "4",
    "3", "7", "5", "9", "3", "2", "6", "4", "9", "9", "1", "8", "1",
    "8", "0", "8", "1", "7", "9", "9", "6", "1", "8", "9", "8", "9",
    "8", "2", "8", "2", "3", "4", "7", "7", "2", "2", "8", "5", "8",
    "8", "6", "5", "4", "6", "3", "3", "2", "8", "3", "5", "5", "1",
    "7", "7", "9", "6", "9", "8", "9", "8", "1", "9", "9", "3", "8",
    "7", "3", "9", "8", "0", "0", "5", "3", "9", "0", "9", "3", "9",
    "0", "6", "3", "1", "5", "0", "3", "5", "6", "5", "9", "5", "1",
    "5", "5", "7", "0", "2", "2", "6", "3", "9", "2", "2", "9", "0",
    "8", "5", "8", "3", "9", "2", "4", "4", "9", "1", "0", "5", "1",
    "8", "4", "4", "3", "5", "9", "3", "1", "8", "0", "2", "8", "4",
    "9", "9", "3", "6", "5", "3", "6", "1", "5", "2", "5", "0", "0",
    "3", "1", "9", "3", "7", "0", "4", "5", "7", "6", "7", "8", "2",
    "4", "9", "2", "1", "9", "3", "6", "5", "6", "2", "3", "6", "6",
    "9", "8", "6", "3", "6", "5", "8", "4", "8", "0", "7", "5", "7",
    "0", "0", "1", "5", "8", "5", "7", "6", "9", "2", "6", "9", "9",
    "0", "3", "7", "0", "6", "3", "1", "1", "9", "2", "8", "2", "7",
    "9", "5", "5", "8", "5", "5", "1", "3", "3", "2", "9", "2", "7",
    "8", "3", "4", "3", "3", "8", "4", "0", "9", "3", "5", "1", "9",
    "7", "8", "0", "1", "5", "5", "3", "1", "2", "4", "6", "5", "9",
    "7", "2", "6", "3", "5", "7", "9", "5", "7", "4", "6", "2", "2",
    "7", "6", "6", "4", "6", "5", "2", "7", "2", "8", "2", "7", "2",
    "2", "0", "0", "5", "6", "3", "7", "4", "0", "0", "6", "4", "8",
    "5", "4", "9", "9", "9", "7", "7", "0", "9", "6", "5", "9", "9",
    "4", "7", "0", "4", "5", "4", "0", "2", "0", "8", "2", "8", "1",
    "6", "6", "2", "2", "6", "2", "3", "7", "8", "5", "7", "3", "9",
    "3", "4", "5", "0", "7", "3", "6", "3", "3", "9", "0", "0", "7",
    "9", "6", "7", "7", "6", "1", "9", "3", "0", "5", "7", "7", "5",
    "0", "6", "7", "4", "0", "1", "7", "6", "3", "2", "4", "6", "7",
    "3", "6", "0", "0", "9", "6", "8", "9", "5", "1", "3", "4", "0",
    "5", "3", "5", "5", "3", "7", "4", "5", "8", "5", "1", "6", "6",
    "6", "1", "1", "3", "4", "2", "2", "3", "7", "6", "6", "6", "7",
    "8", "6", "0", "4", "1", "6", "2", "1", "5", "9", "6", "8", "0",
    "4", "6", "1", "9", "1", "4", "4", "6", "7", "2", "9", "1", "8",
    "4", "0", "3", "0", "0", "5", "3", "0", "0", "5", "7", "5", "3",
    "0", "8", "4", "9", "0", "4", "8", "7", "6", "5", "3", "9", "1",
    "7", "1", "1", "3", "8", "6", "5", "9", "1", "6", "4", "6", "2",
    "3", "9", "5", "2", "4", "9", "1", "2", "6", "2", "3", "6", "5",
    "3", "8", "8", "1", "8", "7", "9", "6", "3", "6", "2", "3", "9",
    "3", "7", "3", "2", "8", "0", "4", "2", "3", "8", "9", "1", "0",
    "1", "8", "6", "7", "2", "3", "4", "8", "4", "9", "7", "6", "6",
    "8", "2", "3", "5", "0", "8", "9", "8", "6", "3", "3", "8", "8",
    "5", "8", "7", "9", "2", "5", "6", "2", "8", "3", "0", "2", "7",
    "5", "5", "9", "9", "5", "6", "5", "7", "5", "2", "4", "4", "5",
    "5", "5", "0", "7", "2", "5", "5", "1", "8", "9", "3", "1", "3",
    "6", "9", "0", "8", "3", "6", "2", "5", "4", "7", "7", "9", "1",
    "8", "6", "9", "4", "8", "6", "6", "7", "9", "9", "4", "9", "6",
    "8", "3", "2", "4", "0", "4", "9", "7", "0", "5", "8", "2", "1",
    "0", "2", "8", "5", "1", "3", "1", "8", "5", "4", "5", "1", "3",
    "9", "6", "2", "1", "3", "8", "3", "7", "7", "2", "2", "8", "2",
    "6", "1", "4", "5", "4", "3", "7", "6", "9", "3", "4", "1", "2",
    "5", "3", "2", "0", "9", "8", "5", "9", "1", "3", "2", "7", "6",
    "6", "7", "2", "3", "6", "3", "2", "8", "1", "2", "5">>

\* 0.x < 0.y for the digits x and y, neither ending in a zero: at the
\* first position where they part, x has ended or has the smaller digit
FracLess(x, y) ==
    \E i \in DOMAIN y :
        /\ \A j \in 1..(i - 1) : j <= Len(x) /\ x[j] = y[j]
        /\ i > Len(x) \/ DigitVal(x[i]) < DigitVal(y[i])

\* 0.x * 10^a < 0.y * 10^b for digits x and y that start with no zero
DecLess(x, a, y, b) ==
    IF a # b THEN a < b
    ELSE FracLess(RStrip(x, {"0"}), RStrip(y, {"0"}))

\* digs / 10^scale is 2^1024 - 2^970 or more
Overflows(digs, scale) ==
    ~DecLess(digs, Len(digs) - scale, OverflowBound, Len(OverflowBound))

\* digs / 10^scale is 2^-1075 or less
Underflows(digs, scale) ==
    ~DecLess(UnderflowBound, Len(UnderflowBound) - 1075,
             digs, Len(digs) - scale)

\* digs / 10^scale is a decimal float() does not round to another one: it
\* has at most 15 significant digits, none of them below 10^-323, the
\* first decimal place wider than the spacing 2^-1074 of the least floats
Exact(digs, scale) ==
    /\ Len(RStrip(digs, {"0"})) <= 15
    /\ scale - Droppable(digs, scale) <= 323
    /\ ~Overflows(digs, scale)

\* The float of the digits digs, without leading zeros, over 10^scale.
Magnitude(neg, digs, scale) ==
    CASE digs = <<>> -> <<0, 0>>
      [] digs # <<>> /\ Overflows(digs, scale) -> Inf(neg)
      [] digs # <<>> /\ Underflows(digs, scale) -> <<0, 0>>
      [] digs # <<>> /\ Exact(digs, scale) /\ scale <= 0 ->
            Whole(neg, digs, scale)
      [] digs # <<>> /\ Exact(digs, scale) /\ scale > 0 ->
            Fraction(neg, DropLast(digs, Droppable(digs, scale)),
                     scale - Droppable(digs, scale))

\* the digits after the "." of the mantissa split at "."
Frac(p) == IF Len(p) = 2 THEN p[2] ELSE <<>>

\* the float of the mantissa p, split at ".", times 10^e
Decimal(neg, p, e) ==
    Magnitude(neg, LStrip(p[1] \o Frac(p), {"0"}), Len(Frac(p)) - e)

ExponentValue(u) == IF HasExponent(u) THEN SignedInt(Exponent(u)) ELSE 0

FloatValue(neg, u) ==
    IF IsNanWord(u) THEN "nan"
    ELSE IF IsInfWord(u) THEN Inf(neg)
    ELSE Decimal(neg, Split(Mantissa(u), <<".">>), ExponentValue(u))

\* float(s)
FloatOf(s) == FloatValue(NumText(s)[1] = "-", FloatBody(s))

(***************************************************************************)
(* TEXTLC_OUTPUT_COLUMNS: the column codes of the schema table, grouped by *)
(* the coercion function in position 3 of each entry.                      *)
(***************************************************************************)
FloatColumns ==
    {<<"B", "J", "D">>, <<"M", "J", "D">>, <<"H", "J", "D">>,
     <<"R", "J", "D">>, <<"F", "J", "D">>, <<"X", "C", "C">>,
     <<"Y", "C", "C">>, <<"I", "M", "1">>, <<"I", "E", "1">>,
     <<"I", "M", "2">>, <<"I", "E", "2">>, <<"I", "M", "3">>,
     <<"I", "E", "3">>, <<"R", "M", "1">>, <<"R", "M", "2">>,
     <<"R", "M", "3">>, <<"E", "P", "1">>, <<"E", "P", "2">>,
     <<"E", "P", "3">>, <<"T", "F", "1">>, <<"T", "F", "2">>,
     <<"T", "F", "3">>, <<"F", "S", "V">>, <<"F", "D", "V">>,
     <<"F", "K", "V">>, <<"B", "G", "V">>, <<"B", "G", "E">>,
     <<"I", "H", "A">>, <<"I", "Z", "D">>, <<"E", "X", "P">>,
     <<"X", "I", "C">>, <<"Y", "I", "C">>, <<"I", "R", "M", "1">>,
     <<"I", "R", "E", "1">>, <<"I", "R", "M", "2">>, <<"I", "R", "E", "2">>,
     <<"I", "R", "M", "3">>, <<"I", "R", "E", "3">>, <<"I", "E", "P", "1">>,
     <<"I", "E", "P", "2">>, <<"I", "E", "P", "3">>, <<"I", "T", "F", "1">>,
     <<"I", "T", "F", "2">>, <<"I", "T", "F", "3">>}

IntColumns ==
    {<<"C", "C", "D">>, <<"C", "F", "N">>, <<"S", "T", "F">>}

StrColumns ==
    {<<"I", "Q", "1">>, <<"I", "Q", "2">>, <<"I", "Q", "3">>,
     <<"R", "S", "T", "F">>, <<"R", "S", "T", "F", "C">>,
     <<"E", "S", "T", "F">>, <<"E", "S", "T", "F", "C">>,
     <<"T", "S", "T", "F">>, <<"T", "S", "T", "F", "C">>, <<"F", "L", "T">>,
     <<"F", "L", "D">>, <<"N", "E", "T">>, <<"C", "A", "M">>,
     <<"T", "E", "L">>, <<"I", "R", "Q", "1">>, <<"I", "R", "Q", "2">>,
     <<"I", "R", "Q", "3">>}

\* the keys of TEXTLC_OUTPUT_COLUMNS
TEXTLC_OUTPUT_COLUMNS == FloatColumns \cup IntColumns \cup StrColumns

\* TEXTLC_OUTPUT_COLUMNS[col][3], as the name of the coercion function
Coercion(col) ==
    IF col \in FloatColumns THEN "float"
    ELSE IF col \in IntColumns THEN "int" ELSE "str"

\* whether TEXTLC_OUTPUT_COLUMNS[col][3](x) returns rather than raising
Coercible(col, x) ==
    CASE Coercion(col) = "float" -> IsFloatLit(x)
      [] Coercion(col) = "int" -> IsIntLit(x)
      [] OTHER -> TRUE

\* TEXTLC_OUTPUT_COLUMNS[col][3](x)
Coerce(col, x) ==
    CASE Coercion(col) = "float" -> FloatOf(x)
      [] Coercion(col) = "int" -> IntOf(x)
      [] OTHER -> x

(***************************************************************************)
(* String literals of read_hatlc.                                          *)
(***************************************************************************)
ExtGz == <<".", "g", "z">>
ExtBz2 == <<".", "b", "z", "2">>
ExtFits == <<".", "f", "i", "t", "s">>
ExtCsv == <<".", "c", "s", "v">>
ExtHatlc == <<".", "h", "a", "t", "l", "c">>
Hash == <<"#">>
Newline == <<"\n">>
Comma == <<",">>
SepDash == <<" ", "-", " ">>
SepComma == <<",", " ">>
SepEq == <<" ", "=", " ">>
SepColon == <<":", " ">>
DegChars == CharSet(<<" ", "d", "e", "g">>)
TwoMassChars == CharSet(<<"2", "M", "A", "S", "S", " ", "J">>)
FiltersUsed ==
    <<"F", "i", "l", "t", "e", "r", "s", " ", "u", "s", "e", "d", ":">>
ColumnsHead == <<"C", "o", "l", "u", "m", "n", "s", ":">>

(***************************************************************************)
(* The delimited-text decoder, lines 239-310.                              *)
(***************************************************************************)
Last(s) == s[Len(s)]

\* lcf.read().decode().split('\n')
Lcflines(data) == Split(data, Newline)

\* objectdata of line 243: the comment lines
CommentLines(lcflines) == SelectSeq(lcflines, LAMBDA x : StartsWith(x, Hash))

\* objectlc of lines 244-245: the other lines longer than one character
DataLines(lcflines) ==
    SelectSeq(lcflines, LAMBDA x : ~StartsWith(x, Hash) /\ Len(x) > 1)

\* the field delimiter lines 247-250 split the data lines on
Delimiter(lcfname) == IF Contains(lcfname, ExtCsv) THEN "comma" ELSE "whitespace"

\* objectlc of lines 247-250: each data line split into its fields
SplitRows(lcflines, lcfname) ==
    IF Delimiter(lcfname) = "comma"
    THEN [i \in DOMAIN DataLines(lcflines) |->
              Split(DataLines(lcflines)[i], Comma)]
    ELSE [i \in DOMAIN DataLines(lcflines) |->
              SplitWS(DataLines(lcflines)[i])]

\* the shortest length among the sequences of a non-empty list
RECURSIVE MinLen(_)
MinLen(rows) ==
    IF Len(rows) = 1 THEN Len(rows[1])
    ELSE LET m == MinLen(Tail(rows))
         IN  IF Len(rows[1]) < m THEN Len(rows[1]) ELSE m

\* list(zip(*rows)): as many columns as the shortest row has fields
Zip(rows) ==
    IF rows = <<>> THEN <<>>
    ELSE [j \in 1..MinLen(rows) |-> [i \in 1..Len(rows) |-> rows[i][j]]]

\* objectlc of line 253
Objectlc(lcflines, lcfname) == Zip(SplitRows(lcflines, lcfname))

\* objectdata of lines 256-258
Objectdata(lcflines) ==
    SelectSeq([i \in DOMAIN CommentLines(lcflines) |->
                  Strip(StripChars(CommentLines(lcflines)[i], {"#"}))],
              LAMBDA x : Len(x) > 0)

\* objectdata[k] for the 0-based k of the source; <<>> when out of range
Line(od, k) == IF k + 1 <= Len(od) THEN od[k + 1] ELSE <<>>

\* list.index(x) + 1; 0 when absent (where Python raises ValueError)
RECURSIVE IndexFrom(_, _, _)
IndexFrom(s, x, i) ==
    IF i > Len(s) THEN 0 ELSE IF s[i] = x THEN i ELSE IndexFrom(s, x, i + 1)

Index(s, x) == IndexFrom(s, x, 1)

\* the text handed to float() on lines 262-263
DegText(half) == StripChars(Last(Split(half, SepEq)), DegChars)

\* the text handed to float() on lines 266-271
MagText(part) == Last(Split(part, SepEq))

\* the text handed to int() on line 273
NdetText(od) == Last(Split(Line(od, 3), SepColon))

\* columndefs of line 281
Columndefs(od) == From(od, Index(od, ColumnsHead) + 1)

\* columns of lines 283-287
Columns(od) ==
    [i \in DOMAIN Columndefs(od) |-> Split(Columndefs(od)[i], SepDash)[2]]

\* filters of line 279: objectdata[filterhead_ind:columnhead_ind]
Filters(od) == SubSeq(od, Index(od, FiltersUsed), Index(od, ColumnsHead) - 1)

\* filters[2:]: the line after the marker dropped as well
ReturnedFiltersSkipTwo(od) == From(SubSeq(od, Index(od, FiltersUsed),
                                          Index(od, ColumnsHead) - 1), 3)

\* filters[1:] of line 307
ReturnedFilters(od) == From(Filters(od), 2)

\* The exception lines 260-287 raise, "none" when they run through: the
\* statements are tried in the order of the source.
HeaderError(od) ==
    LET radec == Split(Line(od, 1), SepComma)
        mags == Split(Line(od, 2), SepComma)
    IN  IF Len(od) < 1 THEN "IndexError"
        ELSE IF Len(Split(Line(od, 0), SepDash)) # 2 THEN "ValueError"
        ELSE IF Len(od) < 2 THEN "IndexError"
        ELSE IF Len(radec) # 2 THEN "ValueError"
        ELSE IF \E i \in 1..2 : ~IsFloatLit(DegText(radec[i]))
             THEN "ValueError"
        ELSE IF Len(od) < 3 THEN "IndexError"
        ELSE IF Len(mags) # 6 THEN "ValueError"
        ELSE IF \E i \in 1..6 : ~IsFloatLit(MagText(mags[i]))
             THEN "ValueError"
        ELSE IF Len(od) < 4 THEN "IndexError"
        ELSE IF ~IsIntLit(NdetText(od)) THEN "ValueError"
        ELSE IF Len(od) < 5 THEN "IndexError"
        ELSE IF Index(od, FiltersUsed) = 0 THEN "ValueError"
        ELSE IF Index(od, ColumnsHead) = 0 THEN "ValueError"
        ELSE IF \E i \in DOMAIN Columndefs(od) :
                    Len(Split(Columndefs(od)[i], SepDash)) # 3
             THEN "ValueError"
        ELSE "none"

\* The exception the loop of lines 292-297 raises from column ind on
\* (1-based), "none" when it runs through.
RECURSIVE ColumnError(_, _, _)
ColumnError(columns, objectlc, ind) ==
    IF ind > Len(columns) THEN "none"
    ELSE IF ind > Len(objectlc) THEN "IndexError"
    ELSE IF columns[ind] \notin TEXTLC_OUTPUT_COLUMNS THEN "KeyError"
    ELSE IF \E i \in DOMAIN objectlc[ind] :
                ~Coercible(columns[ind], objectlc[ind][i]) THEN "ValueError"
    ELSE ColumnError(columns, objectlc, ind + 1)

\* The column entries of lcdict after the loop of lines 292-297: a later
\* column of the same code overwrites an earlier one.  The codes are keys
\* of TEXTLC_OUTPUT_COLUMNS, none of which is a metadata key of lines
\* 300-308.
ColumnData(columns, objectlc) ==
    [col \in {columns[i] : i \in DOMAIN columns} |->
        LET ind == CHOOSE i \in DOMAIN columns :
                       /\ columns[i] = col
                       /\ \A j \in DOMAIN columns : columns[j] = col => j <= i
        IN  [i \in DOMAIN objectlc[ind] |-> Coerce(col, objectlc[ind][i])]]

\* lcdict of lines 289-308
TextLcdict(od, objectlc) ==
    LET id == Split(Line(od, 0), SepDash)
        radec == Split(Line(od, 1), SepComma)
        mags == Split(Line(od, 2), SepComma)
    IN  [data |-> ColumnData(Columns(od), objectlc),
         hatid |-> id[1],
         twomassid |-> StripChars(id[2], TwoMassChars),
         ra |-> FloatOf(DegText(radec[1])),
         dec |-> FloatOf(DegText(radec[2])),
         mags |-> [i \in DOMAIN mags |-> FloatOf(MagText(mags[i]))],
         ndet |-> IntOf(NdetText(od)),
         hatstations |-> Split(Last(Split(Line(od, 4), SepColon)), SepComma),
         filters |-> ReturnedFilters(od),
         cols |-> Columns(od)]

\* what read_hatlc hands back: None when it returns without a value, Unset
\* while it has not returned or when it raised
None == [none |-> TRUE, unset |-> FALSE]

Unset == [none |-> FALSE, unset |-> TRUE]

\* Lines 243-310 on the decoded text: the exception raised, or the dict.
ReadText(data, lcfname) ==
    LET lcflines == Lcflines(data)
        od == Objectdata(lcflines)
        objectlc == Objectlc(lcflines, lcfname)
        herr == HeaderError(od)
        cerr == IF herr = "none" THEN ColumnError(Columns(od), objectlc, 1)
                ELSE herr
    IN  IF cerr = "none"
        THEN [exc |-> "none", value |-> TextLcdict(od, objectlc)]
        ELSE [exc |-> cerr, value |-> Unset]


(***************************************************************************)
(* The binary-table decoder, lines 207-230.  pyfits is an external         *)
(* library: a FITS file is the record of what it hands back, the primary   *)
(* header (hdulist[0].header) and the table extension (hdulist[1].data).   *)
(***************************************************************************)
\* the keys lines 219-228 write after the loop over the columns
FitsMetaKeys ==
    {<<"h", "a", "t", "i", "d">>, <<"t", "w", "o", "m", "a", "s", "s", "i", "d">>, <<"r", "a">>, <<"d", "e", "c">>, <<"m", "a", "g", "s">>, <<"n", "d", "e", "t">>,
     <<"h", "a", "t", "s", "t", "a", "t", "i", "o", "n", "s">>, <<"f", "i", "l", "t", "e", "r", "s">>, <<"c", "o", "l", "u", "m", "n", "s">>}

\* lcdict of lines 214-228: a column named like a metadata key is
\* overwritten by the metadata
FitsLcdict(hdulist) ==
    LET objectinfo == hdulist.header
        objectlc == hdulist.table
        lccols == hdulist.names
    IN  [data |-> [col \in {lccols[i] : i \in DOMAIN lccols} \ FitsMetaKeys |->
                      objectlc[col]],
         hatid |-> objectinfo.hatid,
         twomassid |-> objectinfo.twomassid,
         ra |-> objectinfo.ra,
         dec |-> objectinfo.dec,
         mags |-> <<objectinfo.vmag, objectinfo.rmag, objectinfo.imag,
                    objectinfo.jmag, objectinfo.hmag, objectinfo.kmag>>,
         ndet |-> objectinfo.ndet,
         hatstations |-> objectinfo.hats,
         filters |-> objectinfo.filters,
         columns |-> lccols]

(***************************************************************************)
(* read_hatlc, lines 195-310.                                              *)
(***************************************************************************)
NoStream == [opener |-> "none", closed |-> TRUE]

\* lines 198-203: which opener the basename selects
Opener(lcfname) ==
    IF Contains(lcfname, ExtGz) THEN "gzip"
    ELSE IF Contains(lcfname, ExtBz2) THEN "bz2"
    ELSE "raw"

\* the if/elif chain of lines 205, 232 and 237: the branch taken
Branch(lcfname, havepyfits) ==
    IF Contains(lcfname, ExtFits) /\ havepyfits THEN "fits"
    ELSE IF Contains(lcfname, ExtFits) /\ ~havepyfits THEN "nopyfits"
    ELSE IF Contains(lcfname, ExtCsv) \/ Contains(lcfname, ExtHatlc)
         THEN "text"
    ELSE "fallthrough"

\* the line printed on line 234, and the one printed on lines 41-42
CantRead(lcfname) ==
    <<"c", "a", "n", "'", "t", " ", "r", "e", "a", "d", " ">> \o lcfname \o <<" ", "s", "i", "n", "c", "e", " ", "w", "e", " ", "d", "o", "n", "'", "t", " ", "h", "a", "v", "e", " ", "t", "h", "e", " ", "p", "y", "f", "i", "t", "s", " ", "m", "o", "d", "u", "l", "e">>

NoPyfitsFound ==
    <<"n", "o", " ", "p", "y", "f", "i", "t", "s", " ", "m", "o", "d", "u", "l", "e", " ", "f", "o", "u", "n", "d", " ", "(", "t", "r", "y", " ", "p", "i", "p", " ", "i", "n", "s", "t", "a", "l", "l", " ", "p", "y", "f", "i", "t", "s", "?", ")", ".", " ">>
    \o <<"w", "o", "n", "'", "t", " ", "b", "e", " ", "a", "b", "l", "e", " ", "t", "o", " ", "r", "e", "a", "d", " ", "F", "I", "T", "S", " ", "f", "o", "r", "m", "a", "t", " ", "H", "A", "T", " ", "L", "C", "s">>

\* Lines 205-310 on an opened stream: the branch, the exception raised or
\* the value returned, whether lcf.close() was reached, and what was
\* printed.
Decode(lcfname, havepyfits, file) ==
    LET branch == Branch(lcfname, havepyfits)
        text == ReadText(file.data, lcfname)
    IN  IF branch = "fits"
        THEN IF file.kind = "fits" /\ file.fault = "ok"
             THEN [branch |-> branch, exc |-> "none",
                   value |-> FitsLcdict(file.hdulist),
                   closed |-> TRUE, printed |-> <<>>]
             ELSE [branch |-> branch, exc |-> "OSError", value |-> Unset,
                   closed |-> FALSE, printed |-> <<>>]
        ELSE IF branch = "nopyfits"
        THEN [branch |-> branch, exc |-> "none", value |-> None,
              closed |-> FALSE, printed |-> <<CantRead(lcfname)>>]
        ELSE IF branch = "text"
        THEN IF file.fault # "ok"
             THEN [branch |-> branch, exc |-> "OSError", value |-> Unset,
                   closed |-> FALSE, printed |-> <<>>]
             ELSE IF file.kind # "text"
             THEN [branch |-> branch, exc |-> "UnicodeDecodeError",
                   value |-> Unset, closed |-> FALSE, printed |-> <<>>]
             ELSE [branch |-> branch, exc |-> text.exc,
                   value |-> IF text.exc = "none" THEN text.value ELSE Unset,
                   closed |-> TRUE, printed |-> <<>>]
        ELSE [branch |-> branch, exc |-> "none", value |-> None,
              closed |-> FALSE, printed |-> <<>>]

(***************************************************************************)
(* The inputs.  A path is an optional directory, the stem "lc" and suffix  *)
(* segments.  A file on disk is described by a record: its kind (a text    *)
(* light curve or a FITS table), whether it is readable, and for a text    *)
(* light curve the form of each metadata line, the lines between the       *)
(* markers, the codes of the legend and the data rows.  TextOf gives the   *)
(* text of such a file: "# " before every metadata line, a newline after   *)
(* every line.                                                             *)
(***************************************************************************)
SeqsUpTo(S, n) == UNION {[1..k -> S] : k \in 0..n}

RECURSIVE Concat(_)
Concat(ss) == IF ss = <<>> THEN <<>> ELSE Head(ss) \o Concat(Tail(ss))

DigitChar(n) == CHOOSE c \in Digits : DigitVal(c) = n

Segments == {ExtGz, ExtBz2, ExtFits, ExtCsv, ExtHatlc, <<".", "t", "x", "t">>}

Dirs == {<<>>, <<"d", ".", "f", "i", "t", "s", ".", "g", "z", "/">>}

PathOf(dir, segs) == dir \o <<"l", "c">> \o Concat(segs)

\* metadata line 0: "<objectId> - 2MASS J<id>"
TwoMassIds == {<<"0", "1", "+", "5">>, <<"2", "1", "+", "5", "2">>, <<"0", "1", "+", "5", "S">>, <<"J", "1">>}

Line0Text(form, id) ==
    CASE form = "ok" -> <<"H", "1", " ", "-", " ", "2", "M", "A", "S", "S", " ", "J">> \o id
      [] form = "nosep" -> <<"H", "1", " ", "2", "M", "A", "S", "S", " ", "J">> \o id
      [] form = "extrasep" -> <<"H", "1", " ", "-", " ", "X", " ", "-", " ", "2", "M", "A", "S", "S", " ", "J">> \o id

\* metadata line 1: "RA = <value> deg, Dec = <value> deg"
Line1Forms == {"ok", "nolabel", "extraeq", "nonnum", "nocomma"}

Line1Text(form) ==
    CASE form = "ok" -> <<"R", "A", " ", "=", " ", "1", ".", "5", " ", "d", "e", "g", ",", " ", "D", "e", "c", " ", "=", " ", "2", ".", "5", " ", "d", "e", "g">>
      [] form = "nolabel" -> <<"1", ".", "5", " ", "d", "e", "g", ",", " ", "2", ".", "5", " ", "d", "e", "g">>
      [] form = "extraeq" -> <<"R", "A", " ", "=", " ", "a", " ", "=", " ", "1", ".", "5", " ", "d", "e", "g", ",", " ", "D", "e", "c", " ", "=", " ", "2", ".", "5", " ", "d", "e", "g">>
      [] form = "nonnum" -> <<"R", "A", " ", "=", " ", "x", " ", "d", "e", "g", ",", " ", "D", "e", "c", " ", "=", " ", "2", ".", "5", " ", "d", "e", "g">>
      [] form = "nocomma" -> <<"R", "A", " ", "=", " ", "1", ".", "5", " ", "d", "e", "g", " ", "D", "e", "c", " ", "=", " ", "2", ".", "5", " ", "d", "e", "g">>

\* metadata line 2: the six magnitudes
Line2Forms == {"ok", "nolabel", "fivemags"}

Line2Text(form) ==
    CASE form = "ok" ->
            <<"V", "m", "a", "g", " ", "=", " ", "1", ",", " ", "R", "m", "a", "g", " ", "=", " ", "2", ",", " ", "I", "m", "a", "g", " ", "=", " ", "3", ",", " ", "J", "m", "a", "g", " ", "=", " ", "4", ",", " ", "H", "m", "a", "g", " ", "=", " ", "5", ",", " ", "K", "m", "a", "g", " ", "=", " ", "6">>
      [] form = "nolabel" -> <<"1", ",", " ", "2", ",", " ", "3", ",", " ", "4", ",", " ", "5", ",", " ", "6">>
      [] form = "fivemags" ->
            <<"V", "m", "a", "g", " ", "=", " ", "1", ",", " ", "R", "m", "a", "g", " ", "=", " ", "2", ",", " ", "I", "m", "a", "g", " ", "=", " ", "3", ",", " ", "J", "m", "a", "g", " ", "=", " ", "4", ",", " ", "H", "m", "a", "g", " ", "=", " ", "5">>

\* metadata line 3: "<label>: <detectionCount>"
Line3Forms == {"ok", "nolabel", "wrongsep", "nonnum"}

Line3Text(form, n) ==
    CASE form = "ok" -> <<"N", "D", "E", "T", ":", " ">> \o <<DigitChar(n)>>
      [] form = "nolabel" -> <<DigitChar(n)>>
      [] form = "wrongsep" -> <<"N", "D", "E", "T", " ", "=", " ">> \o <<DigitChar(n)>>
      [] form = "nonnum" -> <<"N", "D", "E", "T", ":", " ", "x">>

\* metadata line 4: "<label>: <station1>, <station2>, ..."
Line4Forms == {"ok", "nolabel"}

Line4Text(form) ==
    CASE form = "ok" -> <<"H", "S", ":", " ", "G", "1", ",", " ", "G", "2">>
      [] form = "nolabel" -> <<"G", "1">>

\* the lines between the two markers
FilterLines == {<<"(", "h", ")">>, <<"r">>}

\* the column codes of a legend: float, int, str, and one not in the table
LegendCodes == {<<"B", "J", "D">>, <<"C", "C", "D">>, <<"I", "Q", "1">>, <<"X", "Y", "Z">>}

\* the kinds of data row: k fields (1..MaxFields), or 0 for a line that is
\* a single character
RowKinds == 0..MaxFields

\* field j of row i: a decimal in the odd columns, a digit in the even ones
Field(i, j) ==
    IF j % 2 = 0 THEN <<DigitChar(i)>> ELSE <<DigitChar(i), ".", DigitChar(j)>>

RECURSIVE JoinFields(_, _, _)
JoinFields(i, k, sep) ==
    IF k = 1 THEN Field(i, 1) ELSE JoinFields(i, k - 1, sep) \o sep \o Field(i, k)

RowText(i, kind, delim) ==
    IF kind = 0 THEN <<DigitChar(i)>>
    ELSE JoinFields(i, kind, IF delim = "comma" THEN Comma ELSE <<" ">>)

LegendText(n, code) == <<DigitChar(n)>> \o SepDash \o code \o SepDash \o <<"d">>

\* the text of the light curve f
TextOf(f) ==
    LET meta == <<Line0Text(f.l0, f.twomass), Line1Text(f.l1), Line2Text(f.l2),
                  Line3Text(f.l3, f.ndet), Line4Text(f.l4), FiltersUsed>>
                \o f.filt \o <<ColumnsHead>>
                \o [n \in 1..Len(f.legend) |-> LegendText(n, f.legend[n])]
        rows == [i \in 1..Len(f.rows) |-> RowText(i, f.rows[i], f.delim)]
    IN  Concat([i \in 1..Len(meta) |-> <<"#", " ">> \o meta[i] \o Newline])
        \o Concat([i \in 1..Len(rows) |-> rows[i] \o Newline])

\* the light curve of object H1: two detections, columns BJD and CCD
DefaultFile ==
    [kind |-> "text", fault |-> "ok",
     l0 |-> "ok", twomass |-> <<"0", "1", "+", "5">>, l1 |-> "ok", l2 |-> "ok",
     l3 |-> "ok", ndet |-> 2, l4 |-> "ok",
     filt |-> <<<<"(", "h", ")">>, <<"r">>>>,
     legend |-> <<<<"B", "J", "D">>, <<"C", "C", "D">>>>,
     rows |-> <<2, 2>>,
     delim |-> "whitespace"]

\* what pyfits.open hands back for the FITS form of the same light curve
FitsFile ==
    [header |-> [hatid |-> <<"H", "1">>, twomassid |-> <<"0", "1", "+", "5">>,
                 ra |-> <<15, 1>>, dec |-> <<25, 1>>,
                 vmag |-> <<1, 0>>, rmag |-> <<2, 0>>, imag |-> <<3, 0>>,
                 jmag |-> <<4, 0>>, hmag |-> <<5, 0>>, kmag |-> <<6, 0>>,
                 ndet |-> 2, hats |-> <<"G", "1", ",", " ", "G", "2">>, filters |-> <<"r">>],
     names |-> <<<<"B", "J", "D">>, <<"C", "C", "D">>>>,
     table |-> (<<"B", "J", "D">> :> <<<<11, 1>>, <<21, 1>>>>) @@ (<<"C", "C", "D">> :> <<1, 2>>)]

\* what the stream of the file f holds: the text, or the FITS container
FileOf(f) ==
    IF f.kind = "text"
    THEN [kind |-> "text", fault |-> f.fault, data |-> TextOf(f)]
    ELSE [kind |-> "fits", fault |-> f.fault, hdulist |-> FitsFile]

(***************************************************************************)
(* The state: the environment (what is installed, the path and the         *)
(* segments it was built from, the file on disk), the module global        *)
(* HAVEPYFITS, and one call of read_hatlc: its locals lcfname and lcf, the *)
(* branch it took, what it returned or raised, and what was printed.       *)
(***************************************************************************)
VARIABLES installed, name, hatlc, disk, pc, HAVEPYFITS, lcfname, lcf,
          branch, ret, raised, stdout

vars == <<installed, name, hatlc, disk, pc, HAVEPYFITS, lcfname, lcf,
          branch, ret, raised, stdout>>

env == <<installed, name, hatlc, disk>>

\* Lines 29-43: import pyfits, else astropy.io.fits; an ImportError raised
\* inside the except clause leaves the module after the finally clause has
\* printed its message.
ImportModule ==
    /\ pc = "import"
    /\ IF "pyfits" \in installed \/ "astropy" \in installed
       THEN /\ HAVEPYFITS' = TRUE
            /\ pc' = "call"
            /\ UNCHANGED <<raised, stdout>>
       ELSE /\ HAVEPYFITS' = FALSE
            /\ stdout' = Append(stdout, NoPyfitsFound)
            /\ raised' = "ImportError"
            /\ pc' = "done"
    /\ UNCHANGED <<env, lcfname, lcf, branch, ret>>

\* Lines 195-203: take the basename and open the stream.
OpenStream ==
    /\ pc = "call"
    /\ lcfname' = Basename(hatlc)
    /\ IF disk.fault = "missing"
       THEN /\ raised' = "FileNotFoundError"
            /\ pc' = "done"
            /\ UNCHANGED lcf
       ELSE /\ lcf' = [opener |-> Opener(lcfname'), closed |-> FALSE]
            /\ pc' = "opened"
            /\ UNCHANGED raised
    /\ UNCHANGED <<env, HAVEPYFITS, branch, ret, stdout>>

\* Lines 205-310: decode and return.
ReadHatlc ==
    /\ pc = "opened"
    /\ LET out == Decode(lcfname, HAVEPYFITS, FileOf(disk))
       IN  /\ branch' = out.branch
           /\ raised' = out.exc
           /\ ret' = out.value
           /\ lcf' = [lcf EXCEPT !.closed = out.closed]
           /\ stdout' = stdout \o out.printed
    /\ pc' = "done"
    /\ UNCHANGED <<env, HAVEPYFITS, lcfname>>

Next == ImportModule \/ OpenStream \/ ReadHatlc

\* the state before the module is imported and read_hatlc is called
Start(inst, nm, f) ==
    /\ installed = inst
    /\ name = nm
    /\ hatlc = PathOf(nm.dir, nm.segs)
    /\ disk = f
    /\ pc = "import"
    /\ HAVEPYFITS = FALSE
    /\ lcfname = <<>>
    /\ lcf = NoStream
    /\ branch = "none"
    /\ ret = Unset
    /\ raised = "none"
    /\ stdout = <<>>

HatlcName == [dir |-> <<>>, segs |-> <<ExtHatlc>>]

\* Paths and environments: every basename of up to MaxSegs suffixes, with
\* and without a directory, every set of installed FITS libraries, a file
\* that is readable, missing or corrupt: the FITS form of the default light
\* curve, or its text form written with commas or with blanks.
InitPath ==
    \E inst \in SUBSET {"pyfits", "astropy"}, dir \in Dirs,
       segs \in SeqsUpTo(Segments, MaxSegs),
       kind \in {"text", "fits"}, fault \in {"ok", "missing", "corrupt"},
       delim \in {"comma", "whitespace"} :
        Start(inst, [dir |-> dir, segs |-> segs],
              [DefaultFile EXCEPT !.kind = kind, !.fault = fault,
                                  !.delim = delim])

\* Metadata blocks: every combination of the forms of lines 0-4 and of up
\* to MaxFilt lines between the markers, in a readable .hatlc file.
InitMeta ==
    \E id \in ({"ok"} \X TwoMassIds) \cup ({"nosep", "extrasep"} \X {<<"0", "1", "+", "5">>}),
       l1 \in Line1Forms, l2 \in Line2Forms, l3 \in Line3Forms,
       l4 \in Line4Forms, filt \in SeqsUpTo(FilterLines, MaxFilt) :
        Start({"astropy"}, HatlcName,
              [DefaultFile EXCEPT !.l0 = id[1], !.twomass = id[2], !.l1 = l1,
                                  !.l2 = l2, !.l3 = l3, !.l4 = l4,
                                  !.filt = filt])

\* Tables: every legend of up to MaxCols codes, every list of up to
\* MaxRows rows of 1..MaxFields fields, every NDET in 0..MaxRows, written
\* with commas as .csv or with blanks as .hatlc.
InitTable ==
    \E legend \in SeqsUpTo(LegendCodes, MaxCols),
       rows \in SeqsUpTo(RowKinds, MaxRows), n \in 0..MaxRows,
       fmt \in {<<ExtCsv, "comma">>, <<ExtHatlc, "whitespace">>} :
        Start({"astropy"}, [dir |-> <<>>, segs |-> <<fmt[1]>>],
              [DefaultFile EXCEPT !.legend = legend, !.rows = rows,
                                  !.ndet = n, !.delim = fmt[2]])

Init == InitPath \/ InitMeta \/ InitTable

Spec == Init /\ [][Next]_vars

SpecPath == InitPath /\ [][Next]_vars

SpecMeta == InitMeta /\ [][Next]_vars

SpecTable == InitTable /\ [][Next]_vars

(***************************************************************************)
(* Properties.                                                             *)
(***************************************************************************)
\* read_hatlc has returned a dict from the delimited-text decoder
TextRecord == pc = "done" /\ branch = "text" /\ raised = "none"

\* the call has ended after the stream was opened
Exited == pc = "done" /\ lcf.opener # "none"

\* the suffix ext was written into the basename
HasSeg(ext) == \E i \in DOMAIN name.segs : name.segs[i] = ext

\* every metadata line 0-4 of the file has its expected form
WellFormed ==
    /\ disk.l0 = "ok"
    /\ disk.l1 = "ok"
    /\ disk.l2 = "ok"
    /\ disk.l3 = "ok"
    /\ disk.l4 = "ok"

\* C1: whenever read_hatlc returns a record for a delimited-text file,
\* every per-column sequence has length exactly ndet, the count parsed
\* from metadata line 3.
C1_ColumnLengthIsNdet ==
    TextRecord =>
        \A col \in DOMAIN ret.data : Len(ret.data[col]) = ret.ndet

\* the data rows written to the file, each by its number of fields
WrittenRows == SelectSeq(disk.rows, LAMBDA k : k >= 1)

Ragged == \E i, j \in DOMAIN WrittenRows : WrittenRows[i] # WrittenRows[j]

\* C2: when the data rows of a delimited-text file do not all have the
\* same field count, read_hatlc fails and returns no record.
C2_RaggedRowsRejected ==
    (pc = "done" /\ branch = "text" /\ Ragged) =>
        (raised # "none" /\ ret = Unset)

\* C3: for a delimited-text file whose data fields all coerce, each column
\* code of the legend either is in TEXTLC_OUTPUT_COLUMNS and is a key of the
\* returned record, or the call fails with the unknown-column error
\* (KeyError).
C3_LegendCodeKeptOrKeyError ==
    (pc = "done" /\ branch = "text" /\ raised # "ValueError") =>
        \A i \in DOMAIN disk.legend :
            \/ /\ disk.legend[i] \in TEXTLC_OUTPUT_COLUMNS
               /\ raised = "none"
               /\ disk.legend[i] \in DOMAIN ret.data
            \/ raised = "KeyError"

\* C4, as claimed: for a file with well-formed metadata lines the returned
\* filters are the lines written between the "Filters used:" and "Columns:"
\* markers with the first of them, the sub-header, discarded.
C4_FiltersDropSubheader ==
    (TextRecord /\ WellFormed) => ret.filters = From(disk.filt, 2)

\* C4, amended: the returned filters are exactly the lines written between
\* the "Filters used:" and "Columns:" markers; only the marker line is
\* discarded, the line that follows it is kept.
C4_FiltersAreLinesBetweenMarkers ==
    TextRecord => ret.filters = disk.filt

\* a record returned for the file with "(h)" and "r" between the markers
C4_Witness ==
    /\ TextRecord
    /\ disk.filt = <<<<"(", "h", ")">>, <<"r">>>>
    /\ ret.filters = <<<<"(", "h", ")">>, <<"r">>>>

\* C5: for a file with well-formed metadata whose line 0 is
\* "<objectId> - 2MASS J<id>", the returned twomassid is <id> exactly.
C5_CrossMatchIdPrefixOnly ==
    (TextRecord /\ WellFormed) => ret.twomassid = disk.twomass

\* C6: on every exit of read_hatlc after the stream was opened, the stream
\* has been closed.
C6_StreamClosedOnExit == Exited => lcf.closed

\* C7: when the basename contains none of ".fits", ".csv", ".hatlc",
\* read_hatlc fails with an error; it does not complete normally.
C7_UnsupportedFormatRaises ==
    (Exited /\ ~HasSeg(ExtFits) /\ ~HasSeg(ExtCsv) /\ ~HasSeg(ExtHatlc)) =>
        raised # "none"

\* C8: for a basename containing ".fits" and a file that can be opened,
\* without FITS support the call does not crash, prints the message naming
\* the missing module and returns None; with FITS support the file is
\* decoded by the binary-table branch.
C8_MissingCapabilityReported ==
    (pc = "done" /\ HasSeg(ExtFits) /\ disk.fault # "missing") =>
        IF installed = {}
        THEN raised = "none" /\ ret = None /\ stdout = <<CantRead(lcfname)>>
        ELSE branch = "fits"

\* what the suffixes written into the basename call for
ExpectedOpener ==
    IF HasSeg(ExtGz) THEN "gzip" ELSE IF HasSeg(ExtBz2) THEN "bz2" ELSE "raw"

ExpectedBranch ==
    IF HasSeg(ExtFits) THEN "fits"
    ELSE IF HasSeg(ExtCsv) \/ HasSeg(ExtHatlc) THEN "text"
    ELSE "fallthrough"

ExpectedDelim == IF HasSeg(ExtCsv) THEN "comma" ELSE "whitespace"

\* C9: the opener is chosen by ".gz", else ".bz2", else raw, and the
\* decoder by ".fits", else ".csv", else ".hatlc", each from the basename
\* alone and independently of the other: once opened the stream has the
\* expected opener; at the end the expected branch was taken; the FITS
\* branch returns the table of a readable FITS file and of no other; the
\* text branch returns a record for a readable text file exactly when the
\* file was written with the delimiter its suffix calls for.
C9_SniffingByBasename ==
    /\ lcf.opener # "none" => lcf.opener = ExpectedOpener
    /\ Exited =>
        /\ branch = ExpectedBranch
        /\ branch = "fits" =>
              IF disk.kind = "fits" /\ disk.fault = "ok"
              THEN raised = "none" /\ ret = FitsLcdict(FitsFile)
              ELSE raised = "OSError"
        /\ (branch = "text" /\ disk.kind = "text" /\ disk.fault = "ok") =>
              (raised = "none" <=> disk.delim = ExpectedDelim)
        /\ branch = "fallthrough" => (raised = "none" /\ ret = None)

\* "lc.csv.gz", written with commas, was opened with gzip and decoded
C9_Witness ==
    /\ pc = "done"
    /\ name = [dir |-> <<>>, segs |-> <<ExtCsv, ExtGz>>]
    /\ disk.delim = "comma"
    /\ lcf = [opener |-> "gzip", closed |-> TRUE]
    /\ branch = "text"
    /\ raised = "none"
    /\ ret.cols = <<<<"B", "J", "D">>, <<"C", "C", "D">>>>

\* C10: a file whose metadata lines 0-4 do not all have the expected form
\* is rejected: read_hatlc raises and returns no record.
C10_MalformedMetadataRejected ==
    (pc = "done" /\ branch = "text" /\ ~WellFormed) =>
        (raised # "none" /\ ret = Unset)

=============================================================================
